---- MODULE Spec2Model ----
(***************************************************************************)
(* DingTalk Stream connection monitor                                      *)
(* (extensions/dingtalk/src/monitor.ts).                                   *)
(*                                                                         *)
(* The module state of monitor.ts (the four session slots and the dedup    *)
(* cache), the closure state of every monitorDingtalkProvider call that    *)
(* got as far as constructing a client, the transport client's observable  *)
(* state (callback registered, connected, number of disconnect calls) and  *)
(* the abort signal.  JavaScript runs every function body to completion,   *)
(* so every exported function, the abort listener, the TOPIC_ROBOT         *)
(* callback and the settling of a handler promise are one action each.     *)
(***************************************************************************)
EXTENDS Integers, Sequences, FiniteSets

\* ---------------------------------------------------------------- bounds

\* Clients (sessions) ever constructed in a run.
MaxSessions == 2
\* Largest value of Date.now().
MaxTime == 2
\* handleDingtalkMessage promises that may be unsettled at once.
MaxInflight == 1

\* ------------------------------------------------------------- constants

\* monitor.ts:55 (10000 in the source; scaled).
DEDUP_CACHE_MAX_SIZE == 2
\* monitor.ts:58 (5 * 60 * 1000 ms in the source; scaled to clock units).
DEDUP_CACHE_TTL == 1
\* monitor.ts:226, slice(0, 50) (scaled).
CONTENT_PREFIX_LEN == 2

NULL == "null"
\* null in a slot that holds a client, a promise or a stop hook.
NONE == 0

\* opts.accountId: omitted (then "default", monitor.ts:121) or a string; the
\* empty string is a string like any other to the caller and is falsy in
\* the test of monitor.ts:128.
AccountOpts == {NULL, ""}
\* opts.abortSignal: omitted or the AbortSignal "sig".
SignalOpts == {NULL, "sig"}

ClientIds == 1..MaxSessions

VARIABLES
  currentClient,               \* monitor.ts:37   NONE or a client id
  currentAccountId,            \* monitor.ts:40   NULL or a string
  currentPromise,              \* monitor.ts:43   NONE or the promise of a session
  currentStop,                 \* monitor.ts:46   NONE or the stop hook of a session
  processedMessageIds,         \* monitor.ts:52   Set<string>
  processedMessageTimestamps,  \* monitor.ts:61   Map<string, number>, in insertion order
  sessions,                    \* per constructed client: closure and transport state
  aborted,                     \* AbortSignal.aborted of "sig"
  now,                         \* Date.now()
  inflight,                    \* unsettled handleDingtalkMessage promises
  out                          \* what the latest step returned and logged

vars == <<currentClient, currentAccountId, currentPromise, currentStop,
          processedMessageIds, processedMessageTimestamps, sessions, aborted,
          now, inflight, out>>

cacheVars == <<processedMessageIds, processedMessageTimestamps>>
slotVars == <<currentClient, currentAccountId, currentPromise, currentStop>>

\* A JavaScript string used as a condition.
Truthy(s) == s # NULL /\ s # ""

\* A client that was never constructed.
NoSession ==
  [account |-> NULL, stopped |-> FALSE, listening |-> FALSE,
   promise |-> "none", registered |-> FALSE, connected |-> FALSE,
   disconnects |-> 0]

\* The lifecycle state as one value, threaded through the closures below,
\* with the lines the running call has passed to log and error so far.
Lifecycle ==
  [currentClient |-> currentClient, currentAccountId |-> currentAccountId,
   currentPromise |-> currentPromise, currentStop |-> currentStop,
   sessions |-> sessions, log |-> <<>>]

\* runtime.log / runtime.error (monitor.ts:123-124).
logLine(m, line) == [m EXCEPT !.log = Append(@, line)]

\* What a step hands to its caller: the completion or the error of a
\* monitorDingtalkProvider call, the EventAck of a callback, the lines logged.
Output(ret, ack, log) == [ret |-> ret, ack |-> ack, log |-> log]
NoReturn == [kind |-> "none", promise |-> NONE, error |-> NULL]

SetLifecycle(m) ==
  /\ currentClient' = m.currentClient
  /\ currentAccountId' = m.currentAccountId
  /\ currentPromise' = m.currentPromise
  /\ currentStop' = m.currentStop
  /\ sessions' = m.sessions

\* ------------------------------------------------- transport client (SDK)

\* DWClient.disconnect(): the call is counted whether or not it throws.
clientDisconnect(m, c, throws) ==
  [m |-> [m EXCEPT !.sessions[c].disconnects = @ + 1], threw |-> throws]

\* ------------------------------------- closures of monitorDingtalkProvider

\* A cleanup that disconnects and leaves the slots as they are.
cleanup_KeepSlots(m, c, discThrows) ==
  LET d == clientDisconnect(m, c, discThrows)
  IN [m |-> IF d.threw THEN logLine(d.m, "failed to disconnect client") ELSE d.m,
      threw |-> FALSE]

\* A cleanup without the try/catch of monitor.ts:169-173.
cleanup_Rethrow(m, c, discThrows) ==
  LET m1 == IF m.currentClient = c
            THEN [m EXCEPT !.currentClient = NONE, !.currentAccountId = NULL,
                           !.currentStop = NONE, !.currentPromise = NONE]
            ELSE m
  IN clientDisconnect(m1, c, discThrows)

\* cleanup (monitor.ts:162-174): release the slots if they are this client's,
\* then disconnect; a throwing disconnect is caught and logged.
cleanup(m, c, discThrows) ==
  LET m1 == IF m.currentClient = c
            THEN [m EXCEPT !.currentClient = NONE, !.currentAccountId = NULL,
                           !.currentStop = NONE, !.currentPromise = NONE]
            ELSE m
      d == clientDisconnect(m1, c, discThrows)
  IN [m |-> IF d.threw THEN logLine(d.m, "failed to disconnect client") ELSE d.m,
      threw |-> FALSE]

\* resolve() / reject(err) of the session's promise: a settled promise stays.
settle(m, c, how) ==
  IF m.sessions[c].promise = "pending"
  THEN [m EXCEPT !.sessions[c].promise = how]
  ELSE m

\* A finalize without the stopped guard and without removeEventListener.
finalize_NoGuard(m, c, how, discThrows) ==
  LET r == cleanup(m, c, discThrows)
  IN [m |-> settle([r.m EXCEPT !.sessions[c].stopped = TRUE,
                                !.sessions[c].account = NULL], c, how),
      threw |-> FALSE]

\* A finalize without the test of the stopped flag (monitor.ts:177, 185).
finalize_NoStoppedTest(m, c, how, discThrows) ==
  LET m1 == [m EXCEPT !.sessions[c].stopped = TRUE,
                      !.sessions[c].listening = FALSE,
                      !.sessions[c].account = NULL]
      r == cleanup(m1, c, discThrows)
  IN IF r.threw THEN r ELSE [m |-> settle(r.m, c, how), threw |-> FALSE]

\* The shared body of finalizeResolve and finalizeReject: the stopped guard,
\* removeEventListener, cleanup, then the settling of the promise.  The
\* callback is the only reader of the closure's accountId and its client is
\* disconnected here for good, so the record of a finished session does not
\* keep the account.
finalize(m, c, how, discThrows) ==
  IF m.sessions[c].stopped
  THEN [m |-> m, threw |-> FALSE]
  ELSE LET m1 == [m EXCEPT !.sessions[c].stopped = TRUE,
                           !.sessions[c].listening = FALSE,
                           !.sessions[c].account = NULL]
           r == cleanup(m1, c, discThrows)
       IN IF r.threw THEN r ELSE [m |-> settle(r.m, c, how), threw |-> FALSE]

\* finalizeResolve (monitor.ts:176-182).
finalizeResolve(m, c, discThrows) == finalize(m, c, "resolved", discThrows)

\* finalizeReject (monitor.ts:184-190).
finalizeReject(m, c, discThrows) == finalize(m, c, "rejected", discThrows)

\* handleAbort (monitor.ts:193-196); the listener is { once: true }.
handleAbort(m, c, discThrows) ==
  finalizeResolve(logLine([m EXCEPT !.sessions[c].listening = FALSE],
                          "abort signal received"), c, discThrows)

\* The stop hook stored in currentStop (monitor.ts:199-202).
stopHook(m, c, discThrows) ==
  finalizeResolve(logLine(m, "stop requested"), c, discThrows)

\* An executor without the test of monitor.ts:205.
executor_NoAbortedTest(m, c, signal, sigAborted, setup, discThrows) ==
  LET m2 == [m EXCEPT !.currentStop = c,
                      !.sessions[c].listening = (signal # NULL)]
  IN CASE setup = "registerThrows" ->
            finalizeReject(logLine(m2, "failed to start"), c, discThrows).m
       [] setup = "connectThrows" ->
            finalizeReject(logLine([m2 EXCEPT !.sessions[c].registered = TRUE],
                                   "failed to start"), c, discThrows).m
       [] OTHER ->
            logLine([m2 EXCEPT !.sessions[c].registered = TRUE,
                               !.sessions[c].connected = TRUE], "connected")

\* An executor whose catch block logs and leaves the session as it is.
executor_NoReject(m, c, signal, sigAborted, setup, discThrows) ==
  LET m1 == [m EXCEPT !.currentStop = c]
  IN IF signal # NULL /\ sigAborted
     THEN finalizeResolve(m1, c, discThrows).m
     ELSE LET m2 == [m1 EXCEPT !.sessions[c].listening = (signal # NULL)]
          IN CASE setup = "registerThrows" -> logLine(m2, "failed to start")
               [] setup = "connectThrows" ->
                    logLine([m2 EXCEPT !.sessions[c].registered = TRUE],
                            "failed to start")
               [] OTHER ->
                    logLine([m2 EXCEPT !.sessions[c].registered = TRUE,
                                       !.sessions[c].connected = TRUE],
                            "connected")

\* The Promise executor (monitor.ts:158-265) for the new client c, called
\* with opts.abortSignal = signal whose aborted flag is sigAborted.  setup is
\* what the transport does: "ok", "registerThrows" or "connectThrows".
executor(m, c, signal, sigAborted, setup, discThrows) ==
  LET m1 == [m EXCEPT !.currentStop = c]
  IN IF signal # NULL /\ sigAborted
     THEN finalizeResolve(m1, c, discThrows).m
     ELSE LET m2 == [m1 EXCEPT !.sessions[c].listening = (signal # NULL)]
          IN CASE setup = "registerThrows" ->
                    finalizeReject(logLine(m2, "failed to start"), c,
                                   discThrows).m
               [] setup = "connectThrows" ->
                    finalizeReject(
                      logLine([m2 EXCEPT !.sessions[c].registered = TRUE],
                              "failed to start"), c, discThrows).m
               [] OTHER ->
                    logLine([m2 EXCEPT !.sessions[c].registered = TRUE,
                                       !.sessions[c].connected = TRUE],
                            "connected")

\* The id of the next client createDingtalkClientFromConfig constructs.
Constructed == {c \in ClientIds : sessions[c].promise # "none"}
nextClient == Cardinality(Constructed) + 1

Rejected(err) == [kind |-> "rejected", promise |-> NONE, error |-> err]
Returned(p) == [kind |-> "promise", promise |-> p, error |-> NULL]

\* accountId = "default" (monitor.ts:121): the default applies when omitted.
effectiveAccount(opt) == IF opt = NULL THEN "default" ELSE opt

\* The test of monitor.ts:128 with === for !==.
otherAccountActive_Same(m, accountId) ==
  Truthy(m.currentAccountId) /\ m.currentAccountId = accountId

\* The test of monitor.ts:128: another account holds the connection.
otherAccountActive(m, accountId) ==
  Truthy(m.currentAccountId) /\ m.currentAccountId # accountId

\* monitor.ts:127-136: the call finds a client in the slot.
startWhileActive(m, accountId) ==
  IF otherAccountActive(m, accountId)
  THEN [m |-> m, ret |-> Rejected("busy")]
  ELSE IF m.currentPromise # NONE
       THEN [m |-> logLine(m, "reusing monitor"),
             ret |-> Returned(m.currentPromise)]
       ELSE [m |-> logLine(m, "reusing monitor"), ret |-> Rejected("invalid")]

\* A start that goes on without the test of monitor.ts:140.
startFresh_NoConfigTest(m, c, accountId, signal, sigAborted, env) ==
  IF env.createThrows
  THEN [m |-> logLine(m, "failed to create client"), ret |-> Rejected("create")]
  ELSE LET m1 == [logLine(m, "starting") EXCEPT
                    !.currentClient = c,
                    !.currentAccountId = accountId,
                    !.sessions[c] = [NoSession EXCEPT !.account = accountId,
                                                      !.promise = "pending"]]
           m2 == executor(m1, c, signal, sigAborted, env.setup, env.discThrows)
       IN [m |-> [m2 EXCEPT !.currentPromise = c], ret |-> Returned(c)]

\* monitor.ts:138-267: the call finds the slot free; c is the client
\* createDingtalkClientFromConfig constructs.
startFresh(m, c, accountId, signal, sigAborted, env) ==
  IF ~env.hasConfig
  THEN [m |-> m, ret |-> Rejected("config")]
  ELSE IF env.createThrows
       THEN [m |-> logLine(m, "failed to create client"),
             ret |-> Rejected("create")]
       ELSE LET m1 == [logLine(m, "starting") EXCEPT
                         !.currentClient = c,
                         !.currentAccountId = accountId,
                         !.sessions[c] =
                            [NoSession EXCEPT !.account = accountId,
                                              !.promise = "pending"]]
                m2 == executor(m1, c, signal, sigAborted, env.setup,
                               env.discThrows)
            IN [m |-> [m2 EXCEPT !.currentPromise = c], ret |-> Returned(c)]

\* A call that skips the test of monitor.ts:127.
monitorResult_NoSlotTest(m, c, optAccount, signal, sigAborted, env) ==
  startFresh(m, c, effectiveAccount(optAccount), signal, sigAborted, env)

\* monitorDingtalkProvider (monitor.ts:120-268) as a function of the
\* lifecycle state and its inputs: the new lifecycle state and what the call
\* returns (the promise it hands back, or the error it rejects with).
monitorResult(m, c, optAccount, signal, sigAborted, env) ==
  IF m.currentClient # NONE
  THEN startWhileActive(m, effectiveAccount(optAccount))
  ELSE startFresh(m, c, effectiveAccount(optAccount), signal, sigAborted, env)

\* What the collaborators do during one call: whether opts.config holds
\* channels.dingtalk, whether createDingtalkClientFromConfig throws, what
\* registerCallbackListener and connect do, whether disconnect throws.  A
\* collaborator the call does not reach has one value only.
Env(hasConfig, createThrows, setup, discThrows) ==
  [hasConfig |-> hasConfig, createThrows |-> createThrows, setup |-> setup,
   discThrows |-> discThrows]

\* The one value for a call that reaches no collaborator.
NoEnv == Env(TRUE, FALSE, "ok", FALSE)

Envs ==
  {Env(FALSE, FALSE, "ok", FALSE), Env(TRUE, TRUE, "ok", FALSE)}
    \cup {Env(TRUE, FALSE, su, dt) :
            su \in {"ok", "registerThrows", "connectThrows"}, dt \in BOOLEAN}

\* A call of monitorDingtalkProvider.
Start(optAccount, signal, env) ==
  /\ currentClient # NONE => env = NoEnv
  /\ \/ currentClient # NONE
     \/ ~env.hasConfig
     \/ env.createThrows
     \/ nextClient <= MaxSessions
  /\ LET r == monitorResult(Lifecycle, nextClient, optAccount, signal, aborted,
                            env)
     IN /\ SetLifecycle(r.m)
        /\ out' = Output(r.ret, NULL, r.m.log)
  /\ UNCHANGED <<cacheVars, aborted, now, inflight>>

\* stopDingtalkMonitor (monitor.ts:273-290).
stopResult(m, discThrows) ==
  IF m.currentStop # NONE
  THEN stopHook(m, m.currentStop, discThrows).m
  ELSE IF m.currentClient # NONE
       THEN LET d == clientDisconnect(m, m.currentClient, discThrows)
                m1 == IF d.threw
                      THEN logLine(d.m, "failed to disconnect client")
                      ELSE d.m
            IN [m1 EXCEPT !.currentClient = NONE, !.currentAccountId = NULL,
                          !.currentPromise = NONE, !.currentStop = NONE]
       ELSE m

\* A stop that also empties the dedup cache.
Stop_ClearsCache(discThrows) ==
  /\ LET m == stopResult(Lifecycle, discThrows)
     IN /\ SetLifecycle(m)
        /\ out' = Output(NoReturn, NULL, m.log)
  /\ processedMessageIds' = {}
  /\ processedMessageTimestamps' = <<>>
  /\ UNCHANGED <<aborted, now, inflight>>

\* A call of stopDingtalkMonitor.
Stop(discThrows) ==
  /\ LET m == stopResult(Lifecycle, discThrows)
     IN /\ SetLifecycle(m)
        /\ out' = Output(NoReturn, NULL, m.log)
  /\ UNCHANGED <<cacheVars, aborted, now, inflight>>

\* The sessions whose handleAbort is registered on the signal.
Listeners == {c \in ClientIds : sessions[c].listening}

RECURSIVE dispatchAbort(_, _, _)
\* AbortSignal dispatches "abort" to its listeners in registration order.
dispatchAbort(m, cs, discThrows) ==
  IF cs = {} THEN m
  ELSE LET c == CHOOSE x \in cs : \A y \in cs : x <= y
       IN dispatchAbort(handleAbort(m, c, discThrows).m, cs \ {c}, discThrows)

\* AbortController.abort(): aborted becomes true once, the listeners run.
Abort(discThrows) ==
  /\ ~aborted
  /\ aborted' = TRUE
  /\ LET m == dispatchAbort(Lifecycle, Listeners, discThrows)
     IN /\ SetLifecycle(m)
        /\ out' = Output(NoReturn, NULL, m.log)
  /\ UNCHANGED <<cacheVars, now, inflight>>

\* isMonitorActive (monitor.ts:299-301) and getCurrentAccountId (310-312).
isMonitorActive == currentClient # NONE
getCurrentAccountId == currentAccountId

\* ------------------------------------------------------------ dedup cache

\* The cache as one value: the Set and the Map (in insertion order).
Cache == [ids |-> processedMessageIds, ts |-> processedMessageTimestamps]

SetCache(ch) ==
  /\ processedMessageIds' = ch.ids
  /\ processedMessageTimestamps' = ch.ts

\* Map.prototype.delete and Map.prototype.set: set on a present key keeps the
\* key's place in the insertion order.
mapDelete(ts, k) == SelectSeq(ts, LAMBDA e : e[1] # k)
mapHas(ts, k) == \E i \in 1..Len(ts) : ts[i][1] = k
mapSet(ts, k, v) ==
  IF mapHas(ts, k)
  THEN [i \in 1..Len(ts) |-> IF ts[i][1] = k THEN <<k, v>> ELSE ts[i]]
  ELSE Append(ts, <<k, v>>)

\* The test of monitor.ts:69 with >= for >.
expired_AtTTL(t, timestamp) == t - timestamp >= DEDUP_CACHE_TTL

\* The test of monitor.ts:69.
expired(t, timestamp) == t - timestamp > DEDUP_CACHE_TTL

\* cleanupDedupCache (monitor.ts:66-74) run when Date.now() = t.
cleanupDedupCache(ch, t) ==
  LET gone == {ch.ts[i][1] : i \in {j \in 1..Len(ch.ts) : expired(t, ch.ts[j][2])}}
  IN [ids |-> ch.ids \ gone,
      ts |-> SelectSeq(ch.ts, LAMBDA e : e[1] \notin gone)]

\* isMessageProcessed (monitor.ts:82-84).
isMessageProcessed(ch, messageId) == messageId \in ch.ids

\* An eviction that removes nothing.
evictOldest_Never(ch) == ch

\* An eviction of the last key of the Map.
evictOldest_Newest(ch) ==
  IF Cardinality(ch.ids) >= DEDUP_CACHE_MAX_SIZE /\ Len(ch.ts) > 0
  THEN LET newestId == ch.ts[Len(ch.ts)][1]
       IN [ids |-> ch.ids \ {newestId}, ts |-> mapDelete(ch.ts, newestId)]
  ELSE ch

\* The eviction of monitor.ts:96-102: the first key of the Map, if any.
evictOldest(ch) ==
  IF Cardinality(ch.ids) >= DEDUP_CACHE_MAX_SIZE /\ Len(ch.ts) > 0
  THEN LET oldestId == ch.ts[1][1]
       IN [ids |-> ch.ids \ {oldestId}, ts |-> mapDelete(ch.ts, oldestId)]
  ELSE ch

\* A markMessageProcessed that purges and evicts without the size test of
\* monitor.ts:93.
markMessageProcessed_AlwaysPurge(ch, messageId, t) ==
  LET c0 == cleanupDedupCache(ch, t)
      c1 == IF Len(c0.ts) > 0
            THEN [ids |-> c0.ids \ {c0.ts[1][1]}, ts |-> Tail(c0.ts)]
            ELSE c0
  IN [ids |-> c1.ids \cup {messageId}, ts |-> mapSet(c1.ts, messageId, t)]

\* markMessageProcessed (monitor.ts:91-106) run when Date.now() = t.
markMessageProcessed(ch, messageId, t) ==
  LET c1 == IF Cardinality(ch.ids) >= DEDUP_CACHE_MAX_SIZE
            THEN evictOldest(cleanupDedupCache(ch, t))
            ELSE ch
  IN [ids |-> c1.ids \cup {messageId}, ts |-> mapSet(c1.ts, messageId, t)]

\* clearDedupCache (monitor.ts:319-322).
clearDedupCache ==
  /\ processedMessageIds' = {}
  /\ processedMessageTimestamps' = <<>>
  /\ out' = Output(NoReturn, NULL, <<>>)
  /\ UNCHANGED <<slotVars, sessions, aborted, now, inflight>>

\* ------------------------------------------------------ event dispatcher

\* What the transport delivers: res.headers.messageId (or none) and
\* res.data, which is text JSON.parse rejects or a DingtalkRawMessage with
\* text.content a string or absent.
Event(messageId, content, msgtype) ==
  [json |-> TRUE, messageId |-> messageId, streamMessageId |-> NULL,
   conversationId |-> "c1", senderId |-> "u1", content |-> content,
   msgtype |-> msgtype]

Malformed == [Event(NULL, NULL, NULL) EXCEPT !.json = FALSE]

Events ==
  { Malformed,
    Event("m1", "hi", "text"),
    Event(NULL, "hi", "text"),
    Event(NULL, "hi!", "text") }

\* String.prototype.slice(0, n).
slice(str, n) == SubSeq(str, 1, IF Len(str) < n THEN Len(str) ELSE n)

\* monitor.ts:218-221: the payload with the delivery id attached.
decode(ev) ==
  IF Truthy(ev.messageId)
  THEN [ev EXCEPT !.streamMessageId = ev.messageId]
  ELSE ev

\* The dedupe key of monitor.ts:224-226.
dedupeKey(accountId, rawMessage) ==
  IF Truthy(rawMessage.streamMessageId)
  THEN accountId \o ":" \o rawMessage.streamMessageId
  ELSE accountId \o ":" \o rawMessage.conversationId \o "_"
         \o rawMessage.senderId \o "_"
         \o (IF rawMessage.content # NULL
             THEN slice(rawMessage.content, CONTENT_PREFIX_LEN)
             ELSE rawMessage.msgtype)

\* A callback that forwards a novel event without marking it.
robotCallback_NoMark(ch, accountId, ev, t) ==
  IF ~ev.json
  THEN [cache |-> ch, ack |-> "SUCCESS", log |-> "error handling message",
        invoke |-> FALSE, steps |-> <<"parse", "ack">>]
  ELSE IF isMessageProcessed(ch, dedupeKey(accountId, decode(ev)))
       THEN [cache |-> ch, ack |-> "SUCCESS",
             log |-> "duplicate message detected", invoke |-> FALSE,
             steps |-> <<"parse", "lookup", "ack">>]
       ELSE [cache |-> ch, ack |-> "SUCCESS", log |-> "received message",
             invoke |-> TRUE, steps |-> <<"parse", "lookup", "invoke", "ack">>]

\* A callback whose catch block answers EventAck.LATER.
robotCallback_NackOnError(ch, accountId, ev, t) ==
  IF ~ev.json
  THEN [cache |-> ch, ack |-> "LATER", log |-> "error handling message",
        invoke |-> FALSE, steps |-> <<"parse", "ack">>]
  ELSE LET dedupeId == dedupeKey(accountId, decode(ev))
       IN IF isMessageProcessed(ch, dedupeId)
          THEN [cache |-> ch, ack |-> "SUCCESS",
                log |-> "duplicate message detected", invoke |-> FALSE,
                steps |-> <<"parse", "lookup", "ack">>]
          ELSE [cache |-> markMessageProcessed(ch, dedupeId, t),
                ack |-> "SUCCESS", log |-> "received message",
                invoke |-> TRUE,
                steps |-> <<"parse", "lookup", "mark", "invoke", "ack">>]

\* A callback that awaits handleDingtalkMessage: the run that forwards an
\* event ends with the handler unsettled and nothing returned yet.
robotCallback_AwaitsHandler(ch, accountId, ev, t) ==
  IF ~ev.json
  THEN [cache |-> ch, ack |-> "SUCCESS", log |-> "error handling message",
        invoke |-> FALSE, steps |-> <<"parse", "ack">>]
  ELSE LET dedupeId == dedupeKey(accountId, decode(ev))
       IN IF isMessageProcessed(ch, dedupeId)
          THEN [cache |-> ch, ack |-> "SUCCESS",
                log |-> "duplicate message detected", invoke |-> FALSE,
                steps |-> <<"parse", "lookup", "ack">>]
          ELSE [cache |-> markMessageProcessed(ch, dedupeId, t),
                ack |-> NULL, log |-> "received message", invoke |-> TRUE,
                steps |-> <<"parse", "lookup", "mark", "invoke", "await">>]

\* The TOPIC_ROBOT callback (monitor.ts:215-255) of a session of accountId,
\* run when Date.now() = t: the cache it leaves, what it returns to the
\* transport (EventAck), the line it logs, whether it called
\* handleDingtalkMessage, and its effects in the order of the source:
\* JSON.parse (218), isMessageProcessed (229), markMessageProcessed (235),
\* the call of handleDingtalkMessage (240), return EventAck.SUCCESS (231,
\* 250, 253).
robotCallback(ch, accountId, ev, t) ==
  IF ~ev.json
  THEN [cache |-> ch, ack |-> "SUCCESS", log |-> "error handling message",
        invoke |-> FALSE, steps |-> <<"parse", "ack">>]
  ELSE LET dedupeId == dedupeKey(accountId, decode(ev))
       IN IF isMessageProcessed(ch, dedupeId)
          THEN [cache |-> ch, ack |-> "SUCCESS",
                log |-> "duplicate message detected", invoke |-> FALSE,
                steps |-> <<"parse", "lookup", "ack">>]
          ELSE [cache |-> markMessageProcessed(ch, dedupeId, t),
                ack |-> "SUCCESS", log |-> "received message",
                invoke |-> TRUE,
                steps |-> <<"parse", "lookup", "mark", "invoke", "ack">>]

\* The transport delivers to the callback of a client that is connected.
Live(c) ==
  /\ sessions[c].registered
  /\ sessions[c].connected
  /\ sessions[c].disconnects = 0

\* The transport delivers ev to client c.
Deliver(c, ev) ==
  /\ Live(c)
  /\ LET r == robotCallback(Cache, sessions[c].account, ev, now)
     IN /\ r.invoke => inflight < MaxInflight
        /\ SetCache(r.cache)
        /\ out' = Output(NoReturn, r.ack, <<r.log>>)
        /\ inflight' = IF r.invoke THEN inflight + 1 ELSE inflight
  /\ UNCHANGED <<slotVars, sessions, aborted, now>>

\* A handleDingtalkMessage promise settles; a rejection is logged by the
\* catch of monitor.ts:246-248.
HandlerSettle(rejects) ==
  /\ inflight > 0
  /\ inflight' = inflight - 1
  /\ out' = Output(NoReturn, NULL,
                   IF rejects THEN <<"error handling message">> ELSE <<>>)
  /\ UNCHANGED <<slotVars, cacheVars, sessions, aborted, now>>

\* Date.now() advances.
Tick ==
  /\ now < MaxTime
  /\ now' = now + 1
  /\ out' = Output(NoReturn, NULL, <<>>)
  /\ UNCHANGED <<slotVars, cacheVars, sessions, aborted, inflight>>

\* ------------------------------------------------------- specification

Init ==
  /\ currentClient = NONE
  /\ currentAccountId = NULL
  /\ currentPromise = NONE
  /\ currentStop = NONE
  /\ processedMessageIds = {}
  /\ processedMessageTimestamps = <<>>
  /\ sessions = [c \in ClientIds |-> NoSession]
  /\ aborted = FALSE
  /\ now = 0
  /\ inflight = 0
  /\ out = Output(NoReturn, NULL, <<>>)

Next ==
  \/ \E a \in AccountOpts, s \in SignalOpts, env \in Envs : Start(a, s, env)
  \/ \E dt \in BOOLEAN : Stop(dt)
  \/ \E dt \in BOOLEAN : Abort(dt)
  \/ \E c \in ClientIds, ev \in Events : Deliver(c, ev)
  \/ \E r \in BOOLEAN : HandlerSettle(r)
  \/ clearDedupCache
  \/ Tick

Spec == Init /\ [][Next]_vars

\* ------------------------------------------------------------ properties

lifecycleVars == <<currentClient, currentAccountId, currentPromise,
                   currentStop, sessions>>

Pending(c) == sessions[c].promise = "pending"
Settled(c) == sessions[c].promise \in {"resolved", "rejected"}

\* C1: at most one session exists at any time.  A client that has been
\* constructed and not disconnected, a client the transport delivers to and
\* a completion that is still pending all belong to the one client in the
\* currentClient slot; so no second client is constructed or connected while
\* one is current.
C1_SingleSession ==
  \A c \in ClientIds :
    (\/ sessions[c].promise # "none" /\ sessions[c].disconnects = 0
     \/ Live(c)
     \/ Pending(c)
     \/ sessions[c].listening)
      => currentClient = c

\* A second session is running after a first one ended, and the latest
\* start call was turned away.
C1_Witness ==
  /\ currentClient = 2
  /\ Live(2)
  /\ sessions[1].disconnects = 1
  /\ out.ret.kind = "rejected"

\* C2: while a session is active for account A, a start for a different
\* account B fails with the busy error, constructs no client and leaves the
\* session as it was.
C2_BusyForOtherAccount ==
  [][\A a \in AccountOpts, s \in SignalOpts :
       (/\ currentClient # NONE
        /\ currentAccountId # effectiveAccount(a)
        /\ Start(a, s, NoEnv))
         => /\ out'.ret = Rejected("busy")
            /\ UNCHANGED lifecycleVars]_vars

\* C3: while a session is active for account A, a start for A returns the
\* pending completion of that session and changes nothing: no client is
\* constructed, no callback registered, no connection opened.
C3_ReuseForSameAccount ==
  [][\A a \in AccountOpts, s \in SignalOpts :
       (/\ currentClient # NONE
        /\ currentAccountId = effectiveAccount(a)
        /\ Start(a, s, NoEnv))
         => /\ out'.ret = Returned(currentClient)
            /\ Pending(currentClient)
            /\ UNCHANGED lifecycleVars]_vars

\* A start call was answered with the running session's pending completion.
C3_Witness ==
  /\ out.log = <<"reusing monitor">>
  /\ out.ret.kind = "promise"
  /\ out.ret.promise = currentClient
  /\ Truthy(currentAccountId)
  /\ Pending(currentClient)
  /\ Live(currentClient)

\* C4: the teardown of a session runs exactly once.  A session that has not
\* been torn down has had no disconnect and its completion is pending; one
\* that has been torn down, by whatever stops and aborts, has had exactly one
\* disconnect and its completion is settled; and a stop() right after a
\* stop() changes nothing.
C4_TeardownOnce ==
  /\ \A c \in Constructed :
       /\ ~sessions[c].stopped => sessions[c].disconnects = 0 /\ Pending(c)
       /\ sessions[c].stopped => sessions[c].disconnects = 1 /\ Settled(c)
  /\ \A dt1 \in BOOLEAN, dt2 \in BOOLEAN :
       LET m == stopResult(Lifecycle, dt1)
       IN stopResult(m, dt2) = m

\* The abort signal has torn down a session that had been connected.
C4_Witness ==
  /\ out.log = <<"abort signal received">>
  /\ aborted
  /\ \E c \in ClientIds :
       /\ sessions[c].connected
       /\ sessions[c].disconnects = 1
       /\ sessions[c].promise = "resolved"

\* C5: a completion is settled only once its session has left the slot, and
\* stop() on an active session leaves the status {active: false,
\* accountId: null} and the completion resolved.
C5_SettledOnlyAfterRelease ==
  /\ \A c \in ClientIds : Settled(c) => currentClient # c
  /\ \A dt \in BOOLEAN :
       currentClient # NONE =>
         LET m == stopResult(Lifecycle, dt)
         IN /\ m.currentClient = NONE
            /\ m.currentAccountId = NULL
            /\ m.sessions[currentClient].promise = "resolved"

\* stop() has ended a connected session: the status is inactive and the
\* completion is resolved.
C5_Witness ==
  /\ out.log = <<"stop requested">>
  /\ ~isMonitorActive
  /\ getCurrentAccountId = NULL
  /\ \E c \in ClientIds : sessions[c].connected /\ sessions[c].promise = "resolved"

\* The key the callback of client c computes for ev.
KeyOf(c, ev) == dedupeKey(sessions[c].account, decode(ev))

\* Map.prototype.get on a present key.
TimestampOf(k) ==
  processedMessageTimestamps[
    CHOOSE i \in 1..Len(processedMessageTimestamps) :
      processedMessageTimestamps[i][1] = k][2]

\* C6: of the deliveries of events with one dedupe key, the first is marked
\* and handed to handleDingtalkMessage in the same callback run, and while
\* the key is in the cache every further one is dropped: it calls no handler
\* and leaves the cache as it is, whether or not the first handler is done.
C6_OneDeliveryPerKey ==
  [][\A c \in ClientIds, ev \in Events :
       (Live(c) /\ ev.json /\ Deliver(c, ev))
         => IF KeyOf(c, ev) \in processedMessageIds
            THEN inflight' = inflight /\ UNCHANGED cacheVars
            ELSE /\ inflight' = inflight + 1
                 /\ KeyOf(c, ev) \in processedMessageIds']_vars

\* A redelivery was dropped while the handler of the first delivery was
\* still running.
C6_Witness ==
  /\ out.log = <<"duplicate message detected">>
  /\ out.ack = "SUCCESS"
  /\ inflight = 1
  /\ processedMessageIds # {}

\* C7: the cache never holds more than DEDUP_CACHE_MAX_SIZE entries, in the
\* Set or in the Map.
C7_CacheBounded ==
  /\ Cardinality(processedMessageIds) <= DEDUP_CACHE_MAX_SIZE
  /\ Len(processedMessageTimestamps) <= DEDUP_CACHE_MAX_SIZE

\* A key was marked and the cache is full, with keys of two accounts in it.
C7_Witness ==
  /\ out.log = <<"received message">>
  /\ Cardinality(processedMessageIds) = DEDUP_CACHE_MAX_SIZE
  /\ ":m1" \in processedMessageIds
  /\ \E k \in processedMessageIds : k \in {"default:m1", "default:c1_u1_hi"}

\* C8: a marked key is in the cache right after the mark, and a key leaves
\* the cache only by clearDedupCache or in a mark of a new key that finds the
\* cache full, and then only if its TTL has expired or it is the oldest
\* entry.  No other step (lookup, a mark below capacity, start, stop, abort,
\* the clock) removes it.
C8_StaysProcessed ==
  [][/\ \A c \in ClientIds, ev \in Events :
          (Live(c) /\ ev.json /\ Deliver(c, ev))
            => KeyOf(c, ev) \in processedMessageIds'
     /\ \A k \in processedMessageIds :
          k \notin processedMessageIds'
            => \/ clearDedupCache
               \/ /\ Cardinality(processedMessageIds) >= DEDUP_CACHE_MAX_SIZE
                  /\ \/ now - TimestampOf(k) > DEDUP_CACHE_TTL
                     \/ k = processedMessageTimestamps[1][1]
                  /\ \E c \in ClientIds, ev \in Events :
                       /\ Live(c) /\ ev.json
                       /\ KeyOf(c, ev) \notin processedMessageIds
                       /\ Deliver(c, ev)]_vars

\* A key is still processed after its session was aborted and the clock
\* moved on to the last tick of its TTL.
C8_Witness ==
  /\ aborted
  /\ currentClient = NONE
  /\ Len(processedMessageTimestamps) >= 1
  /\ now - processedMessageTimestamps[1][2] = DEDUP_CACHE_TTL
  /\ processedMessageTimestamps[1][1] \in processedMessageIds

\* C9: a cleanup pass at time now removes every entry older than the TTL,
\* from the Set and from the Map, keeps every entry whose age is at most the
\* TTL with its timestamp, and so leaves only entries of age at most the TTL.
C9_CleanupPass ==
  LET after == cleanupDedupCache(Cache, now)
      Kept == {after.ts[j] : j \in 1..Len(after.ts)}
  IN /\ \A i \in 1..Len(processedMessageTimestamps) :
          LET e == processedMessageTimestamps[i]
          IN IF now - e[2] > DEDUP_CACHE_TTL
             THEN e[1] \notin after.ids /\ ~mapHas(after.ts, e[1])
             ELSE e[1] \in after.ids /\ e \in Kept
     /\ \A e \in Kept : now - e[2] <= DEDUP_CACHE_TTL
     /\ after.ids \subseteq processedMessageIds
     /\ Len(after.ts) <= Len(processedMessageTimestamps)

\* The cache is full, so the next mark runs the pass, and it holds an entry
\* older than the TTL beside one exactly as old as the TTL.
C9_Witness ==
  /\ Cardinality(processedMessageIds) >= DEDUP_CACHE_MAX_SIZE
  /\ now - processedMessageTimestamps[1][2] > DEDUP_CACHE_TTL
  /\ now - processedMessageTimestamps[2][2] = DEDUP_CACHE_TTL

\* C10: every run of the callback answers EventAck.SUCCESS, for a novel
\* event, a duplicate and a payload that does not decode, and neither the
\* callback nor a handler promise that rejects changes the session: the
\* slots, the completion and the client stay as they were.
C10_AlwaysAck ==
  [][/\ \A c \in ClientIds, ev \in Events :
          (Live(c) /\ Deliver(c, ev))
            => out'.ack = "SUCCESS" /\ UNCHANGED lifecycleVars
     /\ \A r \in BOOLEAN : HandlerSettle(r) => UNCHANGED lifecycleVars]_vars

\* A payload that does not decode was acknowledged and the session is still
\* running.
C10_Witness ==
  /\ out.log = <<"error handling message">>
  /\ out.ack = "SUCCESS"
  /\ currentClient # NONE
  /\ Live(currentClient)
  /\ Pending(currentClient)

\* The collaborators of a call whose opts.config has no channels.dingtalk.
NoConfig == Env(FALSE, FALSE, "ok", FALSE)

\* C11: a start with no session active and the DingTalk configuration absent
\* fails at once with the configuration error: it logs nothing, constructs
\* no client, registers no callback, does not connect, and leaves the slots
\* and every session record as they were, so the status stays inactive.
C11_ConfigError ==
  [][\A a \in AccountOpts, s \in SignalOpts :
       (currentClient = NONE /\ Start(a, s, NoConfig))
         => /\ out'.ret = Rejected("config")
            /\ out'.log = <<>>
            /\ UNCHANGED lifecycleVars
            /\ ~isMonitorActive'
            /\ getCurrentAccountId' = getCurrentAccountId]_vars

\* A start was refused for its configuration and no session is active.
C11_Witness ==
  /\ out.ret = Rejected("config")
  /\ ~isMonitorActive
  /\ getCurrentAccountId = NULL

\* The collaborators of a call that gets as far as constructing its client.
ClientEnvs == {env \in Envs : env.hasConfig /\ ~env.createThrows}

\* C12: whenever no session is active and the signal is aborted, a start
\* with that signal hands back a completion that is already resolved; its
\* client has no callback registered, is never connected and has no abort
\* listener, and once the call has returned the status is inactive.
C12_AbortedAtStart ==
  (aborted /\ currentClient = NONE /\ nextClient <= MaxSessions)
    => \A a \in AccountOpts, env \in ClientEnvs :
         LET r == monitorResult(Lifecycle, nextClient, a, "sig", aborted, env)
         IN /\ r.ret = Returned(nextClient)
            /\ r.m.sessions[nextClient].promise = "resolved"
            /\ ~r.m.sessions[nextClient].registered
            /\ ~r.m.sessions[nextClient].connected
            /\ ~r.m.sessions[nextClient].listening
            /\ r.m.currentClient = NONE
            /\ r.m.currentAccountId = NULL

\* A start with the aborted signal has returned a resolved completion of a
\* client that was never connected, and no session is active.
C12_Witness ==
  /\ aborted
  /\ out.ret.kind = "promise"
  /\ out.log[1] = "starting"
  /\ sessions[out.ret.promise].promise = "resolved"
  /\ ~sessions[out.ret.promise].registered
  /\ ~sessions[out.ret.promise].connected
  /\ ~isMonitorActive

\* C13: whenever no session is active, a start in which
\* registerCallbackListener or connect throws hands back a completion that
\* is rejected and releases the slot: the status is inactive and no abort
\* listener is left; and the start after such a failure, for any account,
\* is not refused as busy and is not handed the failed completion: it
\* constructs a new client and returns that one's completion.
C13_SetupFailureReleases ==
  (currentClient = NONE /\ nextClient <= MaxSessions)
    => \A a \in AccountOpts, s \in SignalOpts, env \in ClientEnvs :
         LET r == monitorResult(Lifecycle, nextClient, a, s, aborted, env)
         IN /\ (env.setup # "ok" /\ ~(s # NULL /\ aborted))
                 => /\ r.ret = Returned(nextClient)
                    /\ r.m.sessions[nextClient].promise = "rejected"
                    /\ r.m.sessions[nextClient].disconnects = 1
                    /\ ~r.m.sessions[nextClient].connected
                    /\ ~r.m.sessions[nextClient].listening
                    /\ r.m.currentClient = NONE
                    /\ r.m.currentAccountId = NULL
                    /\ r.m.currentStop = NONE
            /\ (out.ret.kind = "promise"
                  /\ sessions[out.ret.promise].promise = "rejected")
                 => /\ r.ret = Returned(nextClient)
                    /\ nextClient # out.ret.promise
                    /\ sessions[nextClient].promise = "none"
                    /\ r.m.log[1] = "starting"

\* A start whose connect failed returned a rejected completion, and the
\* start after it runs a new session on a new client.
C13_Witness ==
  /\ sessions[1].promise = "rejected"
  /\ sessions[1].registered
  /\ ~sessions[1].connected
  /\ currentClient = 2
  /\ Live(2)
  /\ Pending(2)
  /\ out.ret = Returned(2)

\* The state a teardown of client c leaves when disconnect() threw.
TornDown(c, line) ==
  /\ ~isMonitorActive'
  /\ getCurrentAccountId' = NULL
  /\ currentStop' = NONE
  /\ sessions'[c].promise = "resolved"
  /\ sessions'[c].stopped
  /\ sessions'[c].disconnects = 1
  /\ out'.ret = NoReturn
  /\ out'.log = <<line, "failed to disconnect client">>

\* C14: a teardown completes when the client's disconnect() throws.  In a
\* stop and in an abort of the active session, the error is logged and not
\* thrown to the caller, the slots are cleared (status inactive) and the
\* pending completion is resolved.
C14_TeardownSurvivesDisconnectError ==
  [][currentClient # NONE
       => /\ ~stopHook(Lifecycle, currentClient, TRUE).threw
          /\ ~handleAbort(Lifecycle, currentClient, TRUE).threw
          /\ Stop(TRUE) => TornDown(currentClient, "stop requested")
          /\ (sessions[currentClient].listening /\ Abort(TRUE))
               => TornDown(currentClient, "abort signal received")]_vars

\* A stop whose disconnect() threw has logged the error, cleared the status
\* and resolved the completion of a session that was connected.
C14_Witness ==
  /\ out.log = <<"stop requested", "failed to disconnect client">>
  /\ ~isMonitorActive
  /\ \E c \in ClientIds :
       /\ sessions[c].connected
       /\ sessions[c].disconnects = 1
       /\ sessions[c].promise = "resolved"

\* Where an effect stands in the order of a callback run (0: not in it).
Position(steps, e) ==
  IF \E i \in 1..Len(steps) : steps[i] = e
  THEN CHOOSE i \in 1..Len(steps) : steps[i] = e
  ELSE 0

\* C15 as stated: for a novel event the callback marks the key, then returns
\* the acknowledgment, and only then calls the downstream handler.
C15_AckThenInvoke ==
  [][\A c \in ClientIds, ev \in Events :
       (/\ Live(c) /\ ev.json
        /\ KeyOf(c, ev) \notin processedMessageIds
        /\ Deliver(c, ev))
         => LET r == robotCallback(Cache, sessions[c].account, ev, now)
            IN /\ Position(r.steps, "mark") > 0
               /\ Position(r.steps, "mark") < Position(r.steps, "ack")
               /\ Position(r.steps, "ack") < Position(r.steps, "invoke")
               /\ out'.ack = "SUCCESS"]_vars

\* C15, amended: for a novel event the callback marks the key, then calls
\* handleDingtalkMessage without awaiting the promise it returns, then
\* returns EventAck.SUCCESS; the acknowledgment is returned in the run that
\* starts the handler, while the handler's promise is unsettled, and does not
\* depend on that promise ever settling.
C15_AckDoesNotAwaitHandler ==
  [][\A c \in ClientIds, ev \in Events :
       (/\ Live(c) /\ ev.json
        /\ KeyOf(c, ev) \notin processedMessageIds
        /\ Deliver(c, ev))
         => LET r == robotCallback(Cache, sessions[c].account, ev, now)
            IN /\ Position(r.steps, "mark") > 0
               /\ Position(r.steps, "mark") < Position(r.steps, "invoke")
               /\ Position(r.steps, "invoke") < Position(r.steps, "ack")
               /\ r.ack = "SUCCESS"
               /\ out'.ack = "SUCCESS"
               /\ KeyOf(c, ev) \in processedMessageIds'
               /\ inflight' = inflight + 1]_vars

\* A novel event was acknowledged and its handler has not settled; the
\* callback goes on acknowledging the next delivery.
C15_Witness ==
  /\ inflight = 1
  /\ out.ack = "SUCCESS"
  /\ out.log \in {<<"received message">>, <<"duplicate message detected">>}
  /\ processedMessageIds # {}
  /\ currentClient # NONE
  /\ Live(currentClient)

\* The dedupe keys the callbacks of the sessions compute.
Keys ==
  {dedupeKey(effectiveAccount(a), decode(ev)) :
     a \in AccountOpts, ev \in Events \ {Malformed}}

\* The entries of a Map.
Entries(ts) == {ts[i] : i \in 1..Len(ts)}

\* C16: markMessageProcessed of a new key k on a full cache.  If an entry is
\* older than the TTL, exactly the entries older than the TTL are removed;
\* if none is, exactly one entry is removed, the first in insertion order,
\* and no entry was inserted before it.  Either way k is in the cache
\* afterwards, with the current time.
C16_MarkAtCapacity ==
  Cardinality(processedMessageIds) >= DEDUP_CACHE_MAX_SIZE
    => \A k \in Keys \ processedMessageIds :
         LET after == markMessageProcessed(Cache, k, now)
             Old == Entries(processedMessageTimestamps)
             Expired == {e \in Old : now - e[2] > DEDUP_CACHE_TTL}
             first == processedMessageTimestamps[1]
         IN /\ k \in after.ids
            /\ <<k, now>> \in Entries(after.ts)
            /\ after.ids = {e[1] : e \in Entries(after.ts)}
            /\ IF Expired # {}
               THEN Entries(after.ts) = (Old \ Expired) \cup {<<k, now>>}
               ELSE /\ Entries(after.ts) = (Old \ {first}) \cup {<<k, now>>}
                    /\ Len(after.ts) = Len(processedMessageTimestamps)
                    /\ \A e \in Old : first[2] <= e[2]

\* The cache is full, its entries were inserted at different times and none
\* is older than the TTL, and a connected session is about to be delivered
\* an event whose key is not in it.
C16_Witness ==
  /\ Cardinality(processedMessageIds) >= DEDUP_CACHE_MAX_SIZE
  /\ processedMessageTimestamps[1][2] < processedMessageTimestamps[2][2]
  /\ \A e \in Entries(processedMessageTimestamps) :
       now - e[2] <= DEDUP_CACHE_TTL
  /\ currentClient # NONE
  /\ Live(currentClient)
  /\ \E ev \in Events :
       ev.json /\ KeyOf(currentClient, ev) \notin processedMessageIds

\* C17: no lifecycle operation touches the dedup cache.  A start (one that
\* succeeds, fails or reuses the session), a stop and an abort leave the Set
\* and the Map as they are, so a key marked in one session is still a
\* duplicate for the callback of a later session of the same account.
C17_LifecycleKeepsCache ==
  [][/\ \/ UNCHANGED cacheVars
        \/ ~ \/ \E a \in AccountOpts, s \in SignalOpts, env \in Envs :
                   Start(a, s, env)
             \/ \E dt \in BOOLEAN : Stop(dt) \/ Abort(dt)
     /\ \A ev \in Events :
          (/\ currentClient # NONE
           /\ Live(currentClient)
           /\ ev.json
           /\ KeyOf(currentClient, ev) \in processedMessageIds
           /\ Deliver(currentClient, ev))
            => /\ out'.log = <<"duplicate message detected">>
               /\ inflight' = inflight
               /\ UNCHANGED cacheVars]_vars

\* The callback of the second session has dropped a duplicate after the
\* first session was stopped and its handler had settled.
C17_Witness ==
  /\ out.log = <<"duplicate message detected">>
  /\ inflight = 0
  /\ currentClient = 2
  /\ sessions[1].stopped
  /\ sessions[1].connected
  /\ sessions[1].promise = "resolved"
  /\ Len(processedMessageTimestamps) = 1

\* C18: the abort signal passed to a start is honoured for every call that
\* is handed a completion, a call that reuses the active session included:
\* when the call's signal is already aborted, the stop path runs and the
\* completion the call was handed is resolved.
C18_SignalHonoured ==
  [][\A a \in AccountOpts, env \in Envs :
       (/\ aborted
        /\ Start(a, "sig", env)
        /\ out'.ret.kind = "promise")
         => /\ sessions'[out'.ret.promise].promise = "resolved"
            /\ sessions'[out'.ret.promise].stopped
            /\ ~isMonitorActive']_vars

\* C19: between operations the four slots are consistent: all four are set
\* (a session is active) or all four are null (none is), and no slot refers
\* to a session that has been torn down; so the "active client without
\* promise" error of monitor.ts:135 and the branch of stopDingtalkMonitor
\* that finds a client and no stop hook are never taken.
C19_SlotsConsistent ==
  /\ \/ /\ currentClient # NONE
        /\ currentAccountId # NULL
        /\ currentStop # NONE
        /\ currentPromise # NONE
     \/ /\ currentClient = NONE
        /\ currentAccountId = NULL
        /\ currentStop = NONE
        /\ currentPromise = NONE
  /\ \A c \in ClientIds :
       sessions[c].stopped
         => currentClient # c /\ currentStop # c /\ currentPromise # c
  /\ out.ret # Rejected("invalid")
  /\ ~(currentStop = NONE /\ currentClient # NONE)

\* A closure call that left the slots and every session as they are.
Untouched(r) ==
  /\ ~r.threw
  /\ r.m.currentClient = currentClient
  /\ r.m.currentAccountId = currentAccountId
  /\ r.m.currentPromise = currentPromise
  /\ r.m.currentStop = currentStop
  /\ r.m.sessions = sessions

\* C20: a session that has terminated cannot tear down a later one.  A late
\* call of a terminated session's abort handler, stop hook or reject path
\* changes nothing, in every reachable state; and when the signal fires
\* while the active session has no listener on it, the active session stays
\* active, its completion pending and its client connected, and no
\* terminated session's client is disconnected again.
C20_NoLateTeardown ==
  \A dt \in BOOLEAN :
    /\ \A c \in ClientIds :
         sessions[c].stopped
           => /\ Untouched(handleAbort(Lifecycle, c, dt))
              /\ Untouched(stopHook(Lifecycle, c, dt))
              /\ Untouched(finalizeReject(Lifecycle, c, dt))
    /\ ~aborted
         => LET m == dispatchAbort(Lifecycle, Listeners, dt)
            IN /\ \A c \in ClientIds :
                    sessions[c].stopped => m.sessions[c] = sessions[c]
               /\ (currentClient # NONE /\ ~sessions[currentClient].listening)
                    => Untouched([m |-> m, threw |-> FALSE])

\* The signal has fired after the first session was torn down and a second
\* one was started: the second is active, connected and pending, and the
\* first client was disconnected once.
C20_Witness ==
  /\ aborted
  /\ out = Output(NoReturn, NULL, <<>>)
  /\ sessions[1].stopped
  /\ sessions[1].connected
  /\ sessions[1].disconnects = 1
  /\ currentClient = 2
  /\ Live(2)
  /\ Pending(2)

====
